---- MODULE Spec2Model ----
(***************************************************************************)
(* Sales-reporting pipeline: schema manager, importer, aggregator          *)
(* (main.py), dashboard (Streamlit.py) and forecast script                 *)
(* (Trend_Analyses.py) over one SQLite database file.                      *)
(***************************************************************************)
EXTENDS Integers, Sequences, FiniteSets, TLC

VARIABLES
    master,            \* sqlite_master: the table definitions, in creation order
    products,          \* rows of table products
    stores,            \* rows of table stores
    sales,             \* rows of table sales
    analysis_results,  \* rows of table analysis_results, in rowid order
    conn,              \* the connection setup_database returned: "none", "open", "closed"
    clock,             \* logical wall clock read by datetime.now()
    last,              \* the most recent call: its name, its exception, stdout, return value
    pc,                \* position of the __main__ block
    log                \* record of the calls made: under SpecMain the calls of the
                       \* current run, under SpecImport the last import's response
                       \* and the rows it found

vars == <<master, products, stores, sales, analysis_results, conn, clock, last, pc, log>>

----------------------------------------------------------------------------
(* Bounds of the model *)

\* longest JSON array a fetch returns
MaxFetch == 2

\* most rows analysis_results may hold
MaxRuns == 2

\* longest daily series the forecast script is started on
MaxDays == 31

\* primary keys served by the remote source
Ids == {1, 2}

Names == {"A", "B"}

Regions == {"North", "South"}

\* calendar days, as ordinals
Days == {1}

----------------------------------------------------------------------------
(* Values *)

\* SQL NULL / Python None is the empty sequence, a value x is <<x>>
Null == <<>>

Some(x) == <<x>>

NoResult ==
    [total_revenue |-> Null, product_sales |-> <<>>, region_sales |-> <<>>,
     forecast |-> <<>>]

Call(op, raised, printed, result) ==
    [op |-> op, raised |-> raised, printed |-> printed, result |-> result]

IdsOf(rows) == {r.id : r \in rows}

RECURSIVE SumAmount(_)
SumAmount(rows) ==
    IF rows = {} THEN 0
    ELSE LET r == CHOOSE x \in rows : TRUE
         IN r.amount + SumAmount(rows \ {r})

\* SELECT SUM(amount): NULL over zero rows
SqlSum(rows) == IF rows = {} THEN Null ELSE Some(SumAmount(rows))

SeqsUpTo(S, n) == UNION {[1..k -> S] : k \in 0..n}

----------------------------------------------------------------------------
(* Schema manager *)

ProductColumns == <<"id", "name", "price", "category">>

StoreColumns == <<"id", "city", "region", "address">>

SaleColumns == <<"id", "product_id", "store_id", "sale_date", "quantity", "amount">>

AnalysisColumns == <<"id", "analysis_type", "result_value", "result_details", "created_at">>

TableNames(m) == {m[i].name : i \in 1..Len(m)}

\* the definition is added whether or not the table exists
CreateTableAlways(m, name, columns) == Append(m, [name |-> name, columns |-> columns])

\* CREATE TABLE IF NOT EXISTS
CreateTableIfNotExists(m, name, columns) ==
    IF name \in TableNames(m) THEN m
    ELSE Append(m, [name |-> name, columns |-> columns])

Schema(m) ==
    CreateTableIfNotExists(
        CreateTableIfNotExists(
            CreateTableIfNotExists(
                CreateTableIfNotExists(m, "products", ProductColumns),
                "stores", StoreColumns),
            "sales", SaleColumns),
        "analysis_results", AnalysisColumns)

setup_database ==
    /\ master' = Schema(master)
    /\ conn' = "open"
    /\ last' = Call("setup_database", "none", <<>>, NoResult)
    /\ UNCHANGED <<products, stores, sales, analysis_results, clock>>

----------------------------------------------------------------------------
(* Importer *)

\* rows the products URL may serve
ProductFeed == [id : Ids, name : Names, price : {10}, category : {"misc"}]

\* sale_date strings: a plain date, a timestamp, and text that is no date
RawDates ==
    {[text |-> t, day |-> d] : t \in {"date", "datetime"}, d \in Days}
        \cup {[text |-> "other", day |-> 0]}

\* rows the sales URL may serve
SaleFeed ==
    {[id |-> i, product_id |-> i, store_id |-> 1, sale_date |-> d,
      quantity |-> 1, amount |-> 10 * i] : i \in Ids, d \in RawDates}

\* requests.get(url) then response.json(): an exception or a JSON array
Responses(feed) ==
    {[exc |-> e, data |-> <<>>] : e \in {"ConnectionError", "JSONDecodeError"}}
        \cup {[exc |-> "none", data |-> d] : d \in SeqsUpTo(feed, MaxFetch)}

\* pd.to_datetime on one value (each value is parsed on its own)
Parseable(raw) == raw.text # "other"

\* .dt.strftime('%Y-%m-%d'): the time of day is dropped
Strftime(raw) == [text |-> "date", day |-> raw.day]

NormaliseDates(df) ==
    [i \in 1..Len(df) |-> [df[i] EXCEPT !.sale_date = Strftime(df[i].sale_date)]]

\* the mask without its negation
NewRecordsKept(df, existing) == SelectSeq(df, LAMBDA r : r.id \in existing)

\* df[~df['id'].isin(existing['id'])]
NewRecords(df, existing) == SelectSeq(df, LAMBDA r : r.id \notin existing)

\* cursor.executemany(INSERT ...): row by row, stops at the first
\* PRIMARY KEY conflict with the rows inserted so far
RECURSIVE ExecuteMany(_, _)
ExecuteMany(rows, batch) ==
    IF batch = <<>> THEN [rows |-> rows, raised |-> "none"]
    ELSE IF Head(batch).id \in IdsOf(rows)
         THEN [rows |-> rows, raised |-> "IntegrityError"]
         ELSE ExecuteMany(rows \cup {Head(batch)}, Tail(batch))

\* the transaction left open when executemany raises is never rolled back
ToSqlNoRollback(rows, batch) == ExecuteMany(rows, batch)

\* if_exists='replace': the table is dropped and rebuilt from the batch
ToSqlReplace(rows, batch) ==
    LET r == ExecuteMany({}, batch)
    IN IF r.raised = "none" THEN r ELSE [rows |-> rows, raised |-> r.raised]

\* DataFrame.to_sql(if_exists='append') on a sqlite3 connection:
\* commit when every row went in, rollback and re-raise otherwise
ToSql(rows, batch) ==
    LET r == ExecuteMany(rows, batch)
    IN IF r.raised = "none" THEN r ELSE [rows |-> rows, raised |-> r.raised]

\* body of import_products after the fetch
ImportProducts(rows, resp) ==
    IF resp.exc # "none"
    THEN [rows |-> rows, raised |-> resp.exc, printed |-> <<>>]
    ELSE LET df == resp.data
         IN IF df = <<>>
            THEN [rows |-> rows, raised |-> "KeyError", printed |-> <<>>]
            ELSE LET new_records == NewRecords(df, IdsOf(rows))
                 IN IF new_records # <<>>
                    THEN LET w == ToSql(rows, new_records)
                         IN [rows |-> w.rows, raised |-> w.raised,
                             printed |-> IF w.raised = "none"
                                         THEN <<[text |-> "Imported new product records",
                                                 n |-> Len(new_records)]>>
                                         ELSE <<>>]
                    ELSE [rows |-> rows, raised |-> "none",
                          printed |-> <<[text |-> "No new product records to import",
                                         n |-> 0]>>]

\* body of import_sales after the fetch
ImportSales(rows, resp) ==
    IF resp.exc # "none"
    THEN [rows |-> rows, raised |-> resp.exc, printed |-> <<>>]
    ELSE IF resp.data = <<>>
    THEN [rows |-> rows, raised |-> "KeyError", printed |-> <<>>]
    ELSE IF \E i \in 1..Len(resp.data) : ~Parseable(resp.data[i].sale_date)
    THEN [rows |-> rows, raised |-> "ValueError", printed |-> <<>>]
    ELSE LET df == NormaliseDates(resp.data)
             new_records == NewRecords(df, IdsOf(rows))
         IN IF new_records # <<>>
            THEN LET w == ToSql(rows, new_records)
                 IN [rows |-> w.rows, raised |-> w.raised,
                     printed |-> IF w.raised = "none"
                                 THEN <<[text |-> "Imported new sales records",
                                         n |-> Len(new_records)]>>
                                 ELSE <<>>]
            ELSE [rows |-> rows, raised |-> "none",
                  printed |-> <<[text |-> "No new sales records to import",
                                 n |-> 0]>>]

import_products(resp) ==
    LET r == ImportProducts(products, resp)
    IN /\ products' = r.rows
       /\ last' = Call("import_products", r.raised, r.printed, NoResult)
       /\ UNCHANGED <<master, stores, sales, analysis_results, conn, clock>>

import_sales(resp) ==
    LET r == ImportSales(sales, resp)
    IN /\ sales' = r.rows
       /\ last' = Call("import_sales", r.raised, r.printed, NoResult)
       /\ UNCHANGED <<master, products, stores, analysis_results, conn, clock>>

----------------------------------------------------------------------------
(* Aggregator *)

\* FROM sales s JOIN products p ON s.product_id = p.id, restricted to one name
SalesOfName(sl, pr, name) ==
    {s \in sl : \E p \in pr : p.id = s.product_id /\ p.name = name}

\* ... GROUP BY p.name with SUM(s.amount): one group per name the join yields
ProductGroups(sl, pr) ==
    {[name |-> n, total_sales |-> SumAmount(SalesOfName(sl, pr, n))] :
        n \in {p.name : p \in {q \in pr : \E s \in sl : s.product_id = q.id}}}

\* FROM sales s JOIN stores st ON s.store_id = st.id, restricted to one region
SalesOfRegion(sl, st, region) ==
    {s \in sl : \E t \in st : t.id = s.store_id /\ t.region = region}

\* a LEFT JOIN: sales without a store form a group of their own
RegionGroupsLeftJoin(sl, st) ==
    {[region |-> r, total_sales |-> SumAmount(SalesOfRegion(sl, st, r))] :
        r \in {t.region : t \in {q \in st : \E s \in sl : s.store_id = q.id}}}
    \cup (IF \E s \in sl : s.store_id \notin IdsOf(st)
          THEN {[region |-> "NULL",
                 total_sales |-> SumAmount({s \in sl : s.store_id \notin IdsOf(st)})]}
          ELSE {})

\* ... GROUP BY st.region with SUM(s.amount)
RegionGroups(sl, st) ==
    {[region |-> r, total_sales |-> SumAmount(SalesOfRegion(sl, st, r))] :
        r \in {t.region : t \in {q \in st : \E s \in sl : s.store_id = q.id}}}

Listings(groups) ==
    {q \in [1..Cardinality(groups) -> groups] :
        \A i, j \in DOMAIN q : i # j => q[i] # q[j]}

\* ORDER BY total_sales ASC
OrderByTotalAsc(groups) ==
    {q \in Listings(groups) :
        \A i, j \in DOMAIN q : i < j => q[i].total_sales <= q[j].total_sales}

\* ORDER BY total_sales DESC: every listing of the groups that is
\* non-increasing (the order among equal totals is the engine's)
OrderByTotalDesc(groups) ==
    {q \in Listings(groups) :
        \A i, j \in DOMAIN q : i < j => q[i].total_sales >= q[j].total_sales}

\* the row is written only when the value differs from the latest one stored
InsertResultIfChanged(results, value, now) ==
    IF results # <<>> /\ results[Len(results)].result_value = value
    THEN results
    ELSE Append(results,
                [id |-> Len(results) + 1, analysis_type |-> "total_revenue",
                 result_value |-> value, result_details |-> "Overall revenue",
                 created_at |-> now])

\* INSERT INTO analysis_results (...) VALUES ('total_revenue', ?, 'Overall revenue', ?)
InsertResult(results, value, now) ==
    Append(results,
           [id |-> Len(results) + 1, analysis_type |-> "total_revenue",
            result_value |-> value, result_details |-> "Overall revenue",
            created_at |-> now])

run_sales_analysis ==
    LET total_revenue == SqlSum(sales)
    IN \E product_sales \in OrderByTotalDesc(ProductGroups(sales, products)),
          region_sales \in OrderByTotalDesc(RegionGroups(sales, stores)) :
          /\ analysis_results' = InsertResult(analysis_results, total_revenue, clock)
          /\ clock' = clock + 1
          /\ last' = Call("run_sales_analysis", "none", <<>>,
                          [total_revenue |-> total_revenue,
                           product_sales |-> product_sales,
                           region_sales |-> region_sales,
                           forecast |-> <<>>])
          /\ UNCHANGED <<master, products, stores, sales, conn>>

----------------------------------------------------------------------------
(* Dashboard script *)

TopN == 5

MoneyPlaces == 2

\* ... LIMIT 5
Limit(q, n) == SubSeq(q, 1, IF Len(q) < n THEN Len(q) ELSE n)

\* the format spec ",.2f": None has no such format
Formattable(value) == value # Null

FormatMoney(value) == [symbol |-> "EUR", amount |-> value[1], places |-> MoneyPlaces]

Streamlit ==
    /\ IF "sales" \notin TableNames(master) \/ "products" \notin TableNames(master)
       THEN last' = Call("Streamlit", "DatabaseError", <<>>, NoResult)
       ELSE LET total_revenue == SqlSum(sales)
            IN \E product_sales \in OrderByTotalDesc(ProductGroups(sales, products)),
                  region_data \in Listings(RegionGroups(sales, stores)) :
                  IF ~Formattable(total_revenue)
                  THEN last' = Call("Streamlit", "TypeError", <<>>,
                                    [total_revenue |-> total_revenue,
                                     product_sales |-> Limit(product_sales, TopN),
                                     region_sales |-> <<>>, forecast |-> <<>>])
                  ELSE last' = Call("Streamlit", "none",
                                    <<[text |-> "Total Revenue",
                                       n |-> FormatMoney(total_revenue).amount]>>,
                                    [total_revenue |-> total_revenue,
                                     product_sales |-> Limit(product_sales, TopN),
                                     region_sales |-> region_data, forecast |-> <<>>])
    /\ UNCHANGED <<master, products, stores, sales, analysis_results, conn, clock>>

----------------------------------------------------------------------------
(* Forecast script *)

ForecastSteps == 7

\* names bound at module level when line 6 runs: the two imports
ScriptGlobals == {"pd", "ARIMA"}

\* SELECT sale_date, SUM(amount) ... GROUP BY sale_date ORDER BY sale_date
DailyRevenue(sl) ==
    LET days == {s.sale_date.day : s \in sl}
        nth(i) == CHOOSE d \in days : Cardinality({e \in days : e < d}) = i - 1
    IN [i \in 1..Cardinality(days) |->
            [sale_date |-> nth(i),
             daily_revenue |-> SumAmount({s \in sl : s.sale_date.day = nth(i)})]]

\* ARIMA(df, order=(5,1,0)).fit(): the estimator lies outside the repository;
\* it returns a fitted model or raises, and cannot fit an empty series
FitOutcomes(series) ==
    IF series = <<>> THEN {"ValueError"} ELSE {"none", "ValueError", "LinAlgError"}

\* model_fit.forecast(steps=7)
Forecast(series) == [i \in 1..ForecastSteps |-> series[Len(series)].daily_revenue]

Trend_Analyses ==
    /\ IF "conn" \notin ScriptGlobals
       THEN last' = Call("Trend_Analyses", "NameError", <<>>, NoResult)
       ELSE IF "sales" \notin TableNames(master)
       THEN last' = Call("Trend_Analyses", "DatabaseError", <<>>, NoResult)
       ELSE LET df == DailyRevenue(sales)
            IN \E fit \in FitOutcomes(df) :
                  IF fit # "none"
                  THEN last' = Call("Trend_Analyses", fit, <<>>, NoResult)
                  ELSE last' = Call("Trend_Analyses", "none",
                                    <<[text |-> "Next Week Forecast:",
                                       n |-> Len(Forecast(df))]>>,
                                    [NoResult EXCEPT !.forecast = Forecast(df)])
    /\ UNCHANGED <<master, products, stores, sales, analysis_results, conn, clock>>

----------------------------------------------------------------------------
(* Calls in any order on one database, starting from an empty file *)

NoCall == Call("none", "none", <<>>, NoResult)

Init ==
    /\ master = <<>>
    /\ products = {}
    /\ stores = {}
    /\ sales = {}
    /\ analysis_results = <<>>
    /\ conn = "none"
    /\ clock = 0
    /\ last = NoCall
    /\ pc = "caller"
    /\ log = <<>>

SetupDatabaseCall ==
    /\ setup_database
    /\ UNCHANGED <<pc, log>>

ImportProductsCall ==
    /\ conn = "open"
    /\ \E resp \in Responses(ProductFeed) : import_products(resp)
    /\ UNCHANGED <<pc, log>>

ImportSalesCall ==
    /\ conn = "open"
    /\ \E resp \in Responses(SaleFeed) : import_sales(resp)
    /\ UNCHANGED <<pc, log>>

RunSalesAnalysisCall ==
    /\ conn = "open"
    /\ Len(analysis_results) < MaxRuns
    /\ run_sales_analysis
    /\ UNCHANGED <<pc, log>>

StreamlitRun ==
    /\ Streamlit
    /\ UNCHANGED <<pc, log>>

TrendAnalysesRun ==
    /\ Trend_Analyses
    /\ UNCHANGED <<pc, log>>

Next ==
    \/ SetupDatabaseCall
    \/ ImportProductsCall
    \/ ImportSalesCall
    \/ RunSalesAnalysisCall
    \/ StreamlitRun
    \/ TrendAnalysesRun

Spec == Init /\ [][Next]_vars

----------------------------------------------------------------------------
(* Importer calls, each recorded with its response and the rows it found *)

TracedImportProducts ==
    /\ conn = "open"
    /\ \E resp \in Responses(ProductFeed) :
          /\ import_products(resp)
          /\ log' = <<[op |-> "import_products", resp |-> resp, before |-> products]>>
    /\ UNCHANGED pc

TracedImportSales ==
    /\ conn = "open"
    /\ \E resp \in Responses(SaleFeed) :
          /\ import_sales(resp)
          /\ log' = <<[op |-> "import_sales", resp |-> resp, before |-> sales]>>
    /\ UNCHANGED pc

NextImport ==
    \/ SetupDatabaseCall
    \/ TracedImportProducts
    \/ TracedImportSales

SpecImport == Init /\ [][NextImport]_vars

----------------------------------------------------------------------------
(* The __main__ block, run after run on the same database file *)

\* the exception is swallowed and the block goes on
PropagateSwallowed(raised, next) == next

\* an exception in a call of the block is not caught: the run ends there
Propagate(raised, next) == IF raised # "none" THEN "aborted" ELSE next

Entry(op) == [op |-> op, raised |-> last'.raised, nresults |-> Len(analysis_results')]

InitMain ==
    /\ master = <<>>
    /\ products = {}
    /\ stores = {}
    /\ sales = {}
    /\ analysis_results = <<>>
    /\ conn = "none"
    /\ clock = 0
    /\ last = NoCall
    /\ pc = "setup_database"
    /\ log = <<>>

MainSetupDatabase ==
    /\ pc = "setup_database"
    /\ setup_database
    /\ log' = Append(log, Entry("setup_database"))
    /\ pc' = Propagate(last'.raised, "import_products")

MainImportProducts ==
    /\ pc = "import_products"
    /\ \E resp \in Responses(ProductFeed) : import_products(resp)
    /\ log' = Append(log, Entry("import_products"))
    /\ pc' = Propagate(last'.raised, "import_sales")

MainImportSales ==
    /\ pc = "import_sales"
    /\ \E resp \in Responses(SaleFeed) : import_sales(resp)
    /\ log' = Append(log, Entry("import_sales"))
    /\ pc' = Propagate(last'.raised, "run_sales_analysis")

MainRunSalesAnalysis ==
    /\ pc = "run_sales_analysis"
    /\ Len(analysis_results) < MaxRuns
    /\ run_sales_analysis
    /\ log' = Append(log, Entry("run_sales_analysis"))
    /\ pc' = Propagate(last'.raised, "print")

MainPrint ==
    /\ pc = "print"
    /\ last' = Call("print", "none",
                    <<[text |-> "Analysis Results:", n |-> 0]>>, last.result)
    /\ UNCHANGED <<master, products, stores, sales, analysis_results, conn, clock>>
    /\ log' = Append(log, Entry("print"))
    /\ pc' = "close"

MainClose ==
    /\ pc = "close"
    /\ conn' = "closed"
    /\ last' = Call("close", "none", <<>>, NoResult)
    /\ UNCHANGED <<master, products, stores, sales, analysis_results, clock>>
    /\ log' = Append(log, Entry("close"))
    /\ pc' = "done"

\* the next invocation of the process finds the database file as it was left
MainStart ==
    /\ pc \in {"done", "aborted"}
    /\ pc' = "setup_database"
    /\ conn' = "none"
    /\ last' = NoCall
    /\ log' = <<>>
    /\ UNCHANGED <<master, products, stores, sales, analysis_results, clock>>

NextMain ==
    \/ MainSetupDatabase
    \/ MainImportProducts
    \/ MainImportSales
    \/ MainRunSalesAnalysis
    \/ MainPrint
    \/ MainClose
    \/ MainStart

SpecMain == InitMain /\ [][NextMain]_vars

----------------------------------------------------------------------------
(* The aggregator and the dashboard on a database that already holds rows *)

ProductRows == [id : Ids, name : Names, price : {10}, category : {"misc"}]

StoreRows == [id : Ids, city : {"Lyon"}, region : Regions, address : {"1 rue A"}]

SaleIds == {1, 2, 3}

AmountsOf(i) == IF i = 3 THEN {5} ELSE {10, 20}

SaleRows ==
    {[id |-> i, product_id |-> p, store_id |-> t,
      sale_date |-> [text |-> "date", day |-> 1], quantity |-> 1, amount |-> a] :
        i \in SaleIds, p \in Ids, t \in Ids, a \in {5, 10, 20}}

RECURSIVE TablesOver(_, _)
TablesOver(ids, rows) ==
    IF ids = {} THEN {{}}
    ELSE LET i == CHOOSE x \in ids : TRUE
         IN {t \cup c : t \in TablesOver(ids \ {i}, rows),
                        c \in {{}} \cup {{r} : r \in {x \in rows : x.id = i}}}

\* tables hold at most one row per primary key
Tables(rows) == TablesOver(IdsOf(rows), rows)

InitAgg ==
    /\ master = Schema(<<>>)
    /\ products \in Tables(ProductRows)
    /\ stores \in Tables(StoreRows)
    /\ sales \in Tables({r \in SaleRows : r.amount \in AmountsOf(r.id)})
    /\ analysis_results = <<>>
    /\ conn = "open"
    /\ clock = 0
    /\ last = NoCall
    /\ pc = "caller"
    /\ log = <<>>

NextAgg ==
    \/ RunSalesAnalysisCall
    \/ StreamlitRun

SpecAgg == InitAgg /\ [][NextAgg]_vars

----------------------------------------------------------------------------
(* The forecast script on a database holding one sale a day *)

DaySales(n, a) ==
    {[id |-> i, product_id |-> 1, store_id |-> 1,
      sale_date |-> [text |-> "date", day |-> i], quantity |-> 1, amount |-> a] :
        i \in 1..n}

InitForecast ==
    /\ master = Schema(<<>>)
    /\ products \in Tables(ProductRows)
    /\ stores = {}
    /\ \E n \in 0..MaxDays, a \in {10, 20} : sales = DaySales(n, a)
    /\ analysis_results = <<>>
    /\ conn = "none"
    /\ clock = 0
    /\ last = NoCall
    /\ pc = "caller"
    /\ log = <<>>

NextForecast == TrendAnalysesRun

SpecForecast == InitForecast /\ [][NextForecast]_vars

----------------------------------------------------------------------------
(* Properties *)

TracedTable(call) == IF call.op = "import_products" THEN products ELSE sales

TracedFrame(call) ==
    IF call.op = "import_sales" THEN NormaliseDates(call.resp.data) ELSE call.resp.data

TracedAgain(call) ==
    IF call.op = "import_products"
    THEN ImportProducts(products, call.resp)
    ELSE ImportSales(sales, call.resp)

Fresh(call) ==
    {i \in 1..Len(TracedFrame(call)) : TracedFrame(call)[i].id \notin IdsOf(call.before)}

\* C1: an import call that returns normally on a table holding ids E appends
\* exactly the fetched rows (sale_date normalised) whose id is not in E, each
\* once, writes nothing when there is none, and reports their number; the
\* same response imported again returns normally, appends nothing and
\* reports zero rows.
ImportDedup ==
    \A k \in 1..Len(log) :
        LET call == log[k]
            df == TracedFrame(call)
            table == TracedTable(call)
            again == TracedAgain(call)
        IN (last.op = call.op /\ last.raised = "none") =>
              /\ table = call.before \cup {df[i] : i \in Fresh(call)}
              /\ Cardinality(table) = Cardinality(call.before) + Cardinality(Fresh(call))
              /\ IdsOf(table) = IdsOf(call.before) \cup {df[i].id : i \in 1..Len(df)}
              /\ last.printed[1].n = Cardinality(Fresh(call))
              /\ Fresh(call) = {} => table = call.before
              /\ again.raised = "none"
              /\ again.rows = table
              /\ again.printed[1].n = 0

\* C1 witness: an import on a non-empty table returned normally; its response
\* carried an id already stored and an id not yet stored.
ImportDedupWitness ==
    \E k \in 1..Len(log) :
        LET call == log[k]
            df == TracedFrame(call)
        IN /\ last.op = call.op
           /\ last.raised = "none"
           /\ \E i \in 1..Len(df) : df[i].id \in IdsOf(call.before)
           /\ Fresh(call) # {}
           /\ last.printed[1].n = 1

\* C2: whether an import call returns or raises, its target table afterwards
\* is the table it found plus either the whole new-record batch or nothing;
\* a call that raises leaves the table as it found it.
NoPartialImport ==
    \A k \in 1..Len(log) :
        LET call == log[k]
            df == TracedFrame(call)
            table == TracedTable(call)
            batch == {df[i] : i \in Fresh(call)}
        IN last.op = call.op =>
              /\ table = call.before \/ table = call.before \cup batch
              /\ last.raised # "none" => table = call.before

\* C2 witness: the write of a batch holding two new rows with one id failed
\* part-way and the table is as the call found it.
NoPartialImportWitness ==
    \E k \in 1..Len(log) :
        LET call == log[k]
            df == TracedFrame(call)
        IN /\ last.op = call.op
           /\ last.raised = "IntegrityError"
           /\ \E i, j \in Fresh(call) : i < j /\ df[i].id = df[j].id
           /\ TracedTable(call) = call.before

UniqueIds(rows) == \A r1, r2 \in rows : r1.id = r2.id => r1 = r2

\* C6: no step of the importer removes or changes a stored row of products,
\* stores or sales (a stored row stays, and no second row with its id
\* appears), and an import leaves the tables other than its target unchanged.
InsertOnly ==
    [][/\ products \subseteq products'
       /\ stores \subseteq stores'
       /\ sales \subseteq sales'
       /\ UniqueIds(products') /\ UniqueIds(stores') /\ UniqueIds(sales')
       /\ last'.op = "import_products" =>
              /\ sales' = sales
              /\ stores' = stores
              /\ analysis_results' = analysis_results
       /\ last'.op = "import_sales" =>
              /\ products' = products
              /\ stores' = stores
              /\ analysis_results' = analysis_results]_vars

\* C6 witness: an import returned normally whose response carried the id of a
\* stored row with other field values, and the stored row is still there.
InsertOnlyWitness ==
    \E k \in 1..Len(log) :
        LET call == log[k]
            df == TracedFrame(call)
        IN /\ last.op = call.op
           /\ last.raised = "none"
           /\ \E i \in 1..Len(df) : \E r \in call.before :
                 r.id = df[i].id /\ r # df[i] /\ r \in TracedTable(call)

MainOrder ==
    <<"setup_database", "import_products", "import_sales", "run_sales_analysis",
      "print", "close">>

\* C7: the calls of a run of the entry point are a prefix of setup, import
\* products, import sales, aggregation, print, close; aggregation is in the
\* run only after both imports returned normally; a call that raises is the
\* last of its run, the run is aborted, it holds no aggregation and
\* analysis_results has the rows it had when the run began.
EntryPointOrder ==
    /\ Len(log) <= Len(MainOrder)
    /\ \A k \in 1..Len(log) : log[k].op = MainOrder[k]
    /\ pc \notin {"done", "aborted"} => pc = MainOrder[Len(log) + 1]
    /\ \A k \in 1..Len(log) :
          log[k].op = "run_sales_analysis" =>
              log[2].raised = "none" /\ log[3].raised = "none"
    /\ \A k \in 1..Len(log) :
          log[k].raised # "none" =>
              /\ k = Len(log)
              /\ pc = "aborted"
              /\ \A j \in 1..Len(log) : log[j].op # "run_sales_analysis"
              /\ \A j \in 1..Len(log) : log[j].nresults = log[1].nresults
              /\ Len(analysis_results) = log[1].nresults
    /\ pc = "aborted" => log # <<>> /\ log[Len(log)].raised # "none"
    /\ pc = "done" => Len(log) = Len(MainOrder) /\ conn = "closed"

\* C7 witness: import_sales raised after import_products had stored rows; the
\* run is aborted after three calls.
EntryPointOrderWitness ==
    /\ pc = "aborted"
    /\ Len(log) = 3
    /\ log[3].op = "import_sales"
    /\ log[3].raised # "none"
    /\ products # {}

\* C8: a call of setup_database leaves exactly the four tables defined, each
\* once, changes no definition that existed, and leaves every stored row as
\* it was.
SchemaIdempotent ==
    [][last'.op = "setup_database" =>
          /\ Len(master') = 4
          /\ TableNames(master') = {"products", "stores", "sales", "analysis_results"}
          /\ \A i \in 1..Len(master) : master'[i] = master[i]
          /\ Len(master) = 4 => master' = master
          /\ products' = products
          /\ stores' = stores
          /\ sales' = sales
          /\ analysis_results' = analysis_results]_vars

\* C8 witness: setup_database has just run on a database that already held
\* products, sales and an analysis row.
SchemaIdempotentWitness ==
    /\ last.op = "setup_database"
    /\ products # {}
    /\ sales # {}
    /\ analysis_results # <<>>
    /\ Len(master) = 4

\* C4: a call of run_sales_analysis appends one row to analysis_results,
\* tagged "total_revenue" and carrying the total it returned, which is the
\* sum over sales; no other step changes analysis_results; so the table holds
\* one row per call, all tagged "total_revenue".
OneResultPerCall ==
    /\ [](/\ Len(analysis_results) = clock
          /\ \A i \in 1..Len(analysis_results) :
                /\ analysis_results[i].analysis_type = "total_revenue"
                /\ analysis_results[i].id = i)
    /\ [][IF last'.op = "run_sales_analysis"
          THEN /\ Len(analysis_results') = Len(analysis_results) + 1
               /\ SubSeq(analysis_results', 1, Len(analysis_results)) = analysis_results
               /\ analysis_results'[Len(analysis_results')].result_value
                      = last'.result.total_revenue
               /\ last'.result.total_revenue = SqlSum(sales)
               /\ clock' = clock + 1
          ELSE analysis_results' = analysis_results /\ clock' = clock]_vars

\* C4 witness: two calls on the same sales wrote two rows with the same value.
OneResultPerCallWitness ==
    /\ last.op = "run_sales_analysis"
    /\ Len(analysis_results) = 2
    /\ analysis_results[1].result_value = analysis_results[2].result_value
    /\ analysis_results[1].result_value # Null

\* C10: from an empty database stores stays empty, and every result of
\* run_sales_analysis has an empty region_sales.
StoresStayEmpty ==
    /\ stores = {}
    /\ last.op = "run_sales_analysis" => last.result.region_sales = <<>>

\* C10 witness: run_sales_analysis returned a total over stored sales and an
\* empty region_sales.
StoresStayEmptyWitness ==
    /\ last.op = "run_sales_analysis"
    /\ last.result.total_revenue = Some(30)
    /\ last.result.product_sales # <<>>
    /\ last.result.region_sales = <<>>

NonIncreasing(q) ==
    \A i, j \in 1..Len(q) : i < j => q[i].total_sales >= q[j].total_sales

\* C3: on tables with at least one sale, run_sales_analysis returns as
\* total_revenue the sum of amount over all sales; product_sales lists once
\* each product name that has a sale, with the sum of amount over the sales
\* of the products of that name, in non-increasing order of sum; region_sales
\* does the same for the store regions, joined through store_id.
AggregatorCorrect ==
    (last.op = "run_sales_analysis" /\ sales # {}) =>
        LET ps == last.result.product_sales
            rs == last.result.region_sales
            sold == {p \in products : \E s \in sales : s.product_id = p.id}
            used == {t \in stores : \E s \in sales : s.store_id = t.id}
        IN /\ last.result.total_revenue = Some(SumAmount(sales))
           /\ {ps[i].name : i \in 1..Len(ps)} = {p.name : p \in sold}
           /\ Len(ps) = Cardinality({p.name : p \in sold})
           /\ \A i \in 1..Len(ps) :
                 ps[i].total_sales =
                     SumAmount({s \in sales : \E p \in products :
                                   p.id = s.product_id /\ p.name = ps[i].name})
           /\ NonIncreasing(ps)
           /\ {rs[i].region : i \in 1..Len(rs)} = {t.region : t \in used}
           /\ Len(rs) = Cardinality({t.region : t \in used})
           /\ \A i \in 1..Len(rs) :
                 rs[i].total_sales =
                     SumAmount({s \in sales : \E t \in stores :
                                   t.id = s.store_id /\ t.region = rs[i].region})
           /\ NonIncreasing(rs)

\* C3 witness: sales 10/A/North, 20/B/North, 5/A/South gave 35,
\* [B:20, A:15] and [North:30, South:5].
AggregatorCorrectWitness ==
    /\ last.op = "run_sales_analysis"
    /\ {[n |-> p.id, v |-> p.name] : p \in products} = {[n |-> 1, v |-> "A"], [n |-> 2, v |-> "B"]}
    /\ {[n |-> t.id, v |-> t.region] : t \in stores}
           = {[n |-> 1, v |-> "North"], [n |-> 2, v |-> "South"]}
    /\ {<<s.amount, s.product_id, s.store_id>> : s \in sales}
           = {<<10, 1, 1>>, <<20, 2, 1>>, <<5, 1, 2>>}
    /\ Cardinality(sales) = 3
    /\ last.result.total_revenue = Some(35)
    /\ last.result.product_sales
           = <<[name |-> "B", total_sales |-> 20], [name |-> "A", total_sales |-> 15]>>
    /\ last.result.region_sales
           = <<[region |-> "North", total_sales |-> 30],
               [region |-> "South", total_sales |-> 5]>>

\* C5: over an empty sales table the total revenue of the aggregator and of
\* the dashboard is absent, and the dashboard renders its headline metric
\* without raising.
EmptyTableBoundary ==
    /\ (last.op = "run_sales_analysis" /\ sales = {}) =>
           last.result.total_revenue = Null /\ last.raised = "none"
    /\ (last.op = "Streamlit" /\ sales = {} /\ Len(master) = 4) =>
           last.result.total_revenue = Null /\ last.raised = "none"

\* C9: the forecast script started on a daily series of at least 30 points
\* ends normally with 7 forecast values, and a failure of the fit never
\* ends the script as an uncaught exception.
ForecasterOutcome ==
    last.op = "Trend_Analyses" =>
        /\ Len(DailyRevenue(sales)) >= 30 =>
               /\ last.raised = "none"
               /\ Len(last.result.forecast) = ForecastSteps
        /\ last.raised \notin {"ValueError", "LinAlgError"}

====
